---- MODULE Spec2Model ----
(***************************************************************************)
(* The concat demuxer of libavformat/concatdec.c as a state machine: the   *)
(* segment table (ConcatContext.files), the active segment and its reader  *)
(* (cur_file, avf), the sticky error, and the handlers read_header,        *)
(* read_packet, read_seek2 and read_close.  A handler is a chain of steps, *)
(* one per call it makes into the per-segment reader, so that the readers  *)
(* open inside a handler are visible; pc = "idle" is the consumer holding  *)
(* control between two calls.                                              *)
(***************************************************************************)
EXTENDS Integers, Sequences, FiniteSets, TLC

\* ---------------------------------------------------------------- bounds
MaxFiles   == 3      \* segments a script may list
MaxDur     == 2      \* largest duration a script or a reader gives
MaxTs      == 4      \* largest seek target
NbPackets  == 1      \* packets a segment's reader delivers before EOF
MaxReaders == 4      \* reader handles that may exist at once in the model
MaxCount   == 2      \* segments the resolver may report

\* ------------------------------------------------------------- constants
CONCAT_MAX_OPEN_TRY == 3

\* int64_t limits, scaled to the integers TLC computes with
INT64_MAX == 2^30 - 1
INT64_MIN == 0 - 2^30
AV_NOPTS_VALUE == INT64_MIN

OK == "OK"
Failed(r) == r # OK

\* AV_TIME_BASE_Q and the time base of the streams (ticks of 2 microseconds)
AV_TIME_BASE == 1000000
AV_TIME_BASE_Q == [num |-> 1, den |-> AV_TIME_BASE]
StreamTimeBase == [num |-> 1, den |-> AV_TIME_BASE \div 2]
NbStreams == 1       \* streams of the virtual source and of every reader

\* durations a `duration` directive can carry: av_parse_time(.., 1) accepts a
\* leading '-', so a negative duration is a script the header build accepts
Durations == {0 - 1, 0, MaxDur}
OpenErrors == {"EIO", "ENOMEM"}

\* the values of the `safe` option: auto, disabled, enabled
SafeOptions == {0 - 1, 0, 1}

\* fsc_cat.count as concat_read_header reads it: what the resolver reported,
\* or, when no resolver wrote it, whatever the uninitialised field holds
Counts == (0 - 1)..MaxCount

VARIABLES
    files,        \* cat->files: sequence of [url, start_time, duration]; file i is files[i+1]
    cur_file,     \* cat->cur_file as an index into files, -1 when NULL
    avf,          \* cat->avf: id of the active reader, 0 when NULL
    seekable,     \* cat->seekable
    error,        \* cat->error, OK when 0
    avf_duration, \* the concat context's own avf->duration
    readers,      \* the open per-segment readers: id -> [fileno, pos, duration]
    unreachable,  \* segments whose locator can never be opened
    safe,         \* cat->safe: -1 auto, 0 disabled, 1 enabled
    cb,           \* whether avf->control_message_cb is set
    hd,           \* concat_read_header's frame: fsc_cat.count, the loop index
    pkt,          \* the packet the last concat_read_packet call filled in
    pc,           \* position inside the running handler, "idle" between calls
    ret,          \* ret of the running handler / value the last call returned
    try_counter,  \* concat_read_packet's try_counter
    of,           \* open_file's frame: [fileno, new, ret_pc]
    sk,           \* concat_seek/real_seek frame
    h             \* history of the running/last call (not program state)

vars == <<files, cur_file, avf, seekable, error, avf_duration, readers,
          unreachable, safe, cb, hd, pkt, pc, ret, try_counter, of, sk, h>>

\* ------------------------------------------------------------- helpers
nb_files == Len(files)
File(i) == files[i + 1]
Known(t) == t # AV_NOPTS_VALUE

\* locators: a descriptor holds the name its `file` line or the resolver
\* gave (>= 0); the locator the resolver supplies at open time for a
\* position is a different one
NoUrl == 0 - 1
ResolvedUrl(position) == 0 - 2 - position

NoFrame == [fileno |-> 0 - 1, new |-> 0, ret_pc |-> "none",
            url |-> NoUrl, position |-> 0 - 1]
\* the frame of a call open_file(avf, fileno)
OpenFrame(fileno, ret_pc) ==
    [fileno |-> fileno, new |-> 0, ret_pc |-> ret_pc,
     url |-> NoUrl, position |-> 0 - 1]

NoWindow == [ts |-> 0, min_ts |-> 0, max_ts |-> 0]
NoSeek  == [cur_file_saved |-> 0 - 1, cur_avf_saved |-> 0, stream |-> 0 - 1,
            min_ts |-> 0, ts |-> 0, max_ts |-> 0, left |-> 0 - 1,
            local |-> NoWindow]
NoHeader == [count |-> 0, i |-> 0, ret_set |-> FALSE]
NoPkt == [fileno |-> 0 - 1, raw_pts |-> AV_NOPTS_VALUE, raw_dts |-> AV_NOPTS_VALUE,
          pts |-> AV_NOPTS_VALUE, dts |-> AV_NOPTS_VALUE]
\* the history of a call: the handler, the avformat_open_input calls and the
\* failed open_next_file calls it made, the segments whose reader rejected
\* its seek, the sticky error the call found, whether a seek request
\* carried AVSEEK_FLAG_BYTE or AVSEEK_FLAG_FRAME, and for
\* concat_read_header the line it read last, the `safe` option it started
\* with, whether an ffconcat line was read and the resolver positions whose
\* entry it added; of a concat_read_packet also what av_read_frame
\* returned last
NoHist  == [op |-> "none", nopen |-> 0, nfail |-> 0,
            rejected |-> {}, pre_error |-> OK, byte_or_frame |-> FALSE,
            line |-> "none", option |-> 0, version |-> FALSE,
            resolved |-> <<>>, frame |-> "none"]

CallHist(op) ==
    [NoHist EXCEPT !.op = op, !.pre_error = error]

\* ------------------------------------------------------------ rescaling
\* av_rescale_rnd(a, b, c, rnd) for b >= 0, c > 0
RECURSIVE av_rescale_rnd(_, _, _, _, _)
av_rescale_rnd(a, b, c, rnd, pass_minmax) ==
    IF pass_minmax /\ (a = INT64_MIN \/ a = INT64_MAX) THEN a
    ELSE IF a < 0
      THEN 0 - av_rescale_rnd(0 - a, b, c,
                              CASE rnd = "UP" -> "DOWN"
                                [] rnd = "DOWN" -> "UP"
                                [] OTHER -> rnd, FALSE)
    ELSE LET r == CASE rnd = "NEAR_INF" -> c \div 2
                    [] rnd = "UP" -> c - 1
                    [] OTHER -> 0
         IN  (a * b + r) \div c

av_rescale_q(a, bq, cq) ==
    av_rescale_rnd(a, bq.num * cq.den, bq.den * cq.num, "NEAR_INF", FALSE)

av_rescale_q_rnd(a, bq, cq, rnd) ==
    av_rescale_rnd(a, bq.num * cq.den, bq.den * cq.num, rnd, TRUE)

\* rescale_interval: the target to the nearest, min up, max down
rescale_interval(tb_in, tb_out, w) ==
    [ts     |-> av_rescale_q(w.ts, tb_in, tb_out),
     min_ts |-> av_rescale_q_rnd(w.min_ts, tb_in, tb_out, "UP"),
     max_ts |-> av_rescale_q_rnd(w.max_ts, tb_in, tb_out, "DOWN")]

\* -------------------------------------------------- per-segment readers
\* the start time and the duration the reader of a segment reports for its file
ReaderStartTime(fileno) == fileno % 2
ReaderDuration(fileno) == 1 + (fileno % MaxDur)

\* the packets a reader delivers, in the time base of their stream: each at
\* the first tick not before the reader's start time, every other segment
\* without a decode timestamp
ReaderPacket(fileno, pos) ==
    LET t == av_rescale_q_rnd(ReaderStartTime(fileno), AV_TIME_BASE_Q,
                              StreamTimeBase, "UP")
    IN  [stream_index |-> 0, pts |-> t,
         dts |-> IF fileno % 2 = 1 THEN AV_NOPTS_VALUE ELSE t]


\* avformat_alloc_context: a handle no open reader uses
NewReader == CHOOSE r \in 1..MaxReaders :
                 /\ r \notin DOMAIN readers
                 /\ \A q \in 1..(r - 1) : q \in DOMAIN readers

\* avformat_close_input
CloseReader(rs, r) == [q \in DOMAIN rs \ {r} |-> rs[q]]

\* A handle is only a name: the reader that stays is given the lowest free
\* name once another one is closed, so that states differing only in the
\* names of the handles coincide.
LowestFree(rs) == CHOOSE r \in 1..MaxReaders :
                     /\ r \notin DOMAIN rs
                     /\ \A q \in 1..(r - 1) : q \in DOMAIN rs
Renamed(rs, r) ==
    LET rest == CloseReader(rs, r)
        to   == LowestFree(rest)
    IN  IF to < r THEN [name |-> to, readers |-> (to :> rs[r]) @@ rest]
        ELSE [name |-> r, readers |-> rs]

\* the context as avformat_open_input hands it to concat_read_header
Constructed ==
    /\ files = <<>>
    /\ cur_file = 0 - 1
    /\ avf = 0
    /\ seekable = FALSE
    /\ error = OK
    /\ avf_duration = AV_NOPTS_VALUE
    /\ readers = <<>>
    /\ hd = NoHeader
    /\ pkt = NoPkt
    /\ pc = "start"
    /\ ret = OK
    /\ try_counter = 0
    /\ of = NoFrame
    /\ sk = NoSeek
    /\ h = NoHist

\* playback: the `safe` option at its default, a control_message_cb set
Init ==
    /\ Constructed
    /\ unreachable \in {{}, {1}}
    /\ safe = 0 - 1
    /\ cb = TRUE

\* the header build: every value of the `safe` option, with and without a
\* control_message_cb
InitHeader ==
    /\ Constructed
    /\ unreachable \in {{}, {0}}
    /\ safe \in SafeOptions
    /\ cb \in BOOLEAN

\* concat_read_close, as the fail: label of concat_read_header runs it
ReadCloseWith(r) ==
    /\ readers' = IF avf # 0 THEN CloseReader(readers, avf) ELSE readers
    /\ avf' = 0
    /\ files' = <<>>
    /\ cur_file' = 0 - 1
    /\ ret' = r
    /\ pc' = "closed"
    /\ of' = NoFrame
    /\ sk' = NoSeek
    /\ hd' = NoHeader
    /\ UNCHANGED <<seekable, error, avf_duration, unreachable, safe, cb, pkt,
                   try_counter>>

\* ------------------------------------------------- concat_read_header
\* faulty variant: the whitelist is applied whatever the `safe` option says
AddFileResultAlways(safe_, unsafe, mem) ==
    IF unsafe THEN "EPERM" ELSE mem

\* what add_file returns for a name that is or is not on the whitelist of
\* safe_filename; mem is the outcome of its allocations
AddFileResult(safe_, unsafe, mem) ==
    IF safe_ > 0 /\ unsafe THEN "EPERM" ELSE mem

\* add_file: a new descriptor with unknown start time and duration
add_file(fs, url) ==
    Append(fs, [url |-> url, start_time |-> AV_NOPTS_VALUE,
                duration |-> AV_NOPTS_VALUE])

\* the table after the resolver loop asked for a position: an answer
\* (cb_ret == 0 and a url) is added with its duration, anything else is
\* passed over
ResolvedFiles(fs, answered, position, dur) ==
    IF answered
      THEN [add_file(fs, position) EXCEPT ![Len(fs) + 1].duration = dur]
      ELSE fs

\* entry of concat_read_header: IJKAVF_CM_RESOLVE_SEGMENT_CONCAT when a
\* control_message_cb is set.  count is fsc_cat.count: written by the
\* resolver when cb_ret = OK, uninitialised otherwise; the resolver loop runs
\* in the first case only, and the script is read when count <= 0
HeaderStart(cb_ret, count) ==
    /\ pc = "start"
    /\ hd' = [count |-> count, i |-> 0, ret_set |-> FALSE]
    /\ pc' = IF cb /\ cb_ret = OK /\ count > 0 THEN "resolve"
             ELSE IF count <= 0 THEN "parse"
             ELSE "hdr_end"
    /\ h' = [h EXCEPT !.op = "header", !.option = safe]
    /\ UNCHANGED <<files, cur_file, avf, seekable, error, avf_duration, readers,
                   unreachable, safe, cb, pkt, ret, try_counter, of, sk>>

\* one round of the resolver loop: IJKAVF_CM_RESOLVE_SEGMENT_OFFLINE for
\* position hd.i, then add_file and the duration when the resolver answered
ResolveSegment(cb_ret, has_url, unsafe, dur, mem) ==
    /\ pc = "resolve"
    /\ hd.i < hd.count
    /\ LET answered == cb_ret = OK /\ has_url
           r == AddFileResult(safe, unsafe, mem)
       IN  IF answered /\ Failed(r)
             THEN /\ ReadCloseWith(r)
                  /\ h' = [h EXCEPT !.line = "resolved"]
             ELSE /\ files' = ResolvedFiles(files, answered, hd.i, dur)
                  /\ hd' = [hd EXCEPT !.i = @ + 1,
                                      !.ret_set = @ \/ answered]
                  /\ ret' = IF answered THEN OK ELSE ret
                  /\ h' = [h EXCEPT !.line = "resolved",
                                    !.resolved = IF answered THEN Append(@, hd.i)
                                                 ELSE @]
                  /\ UNCHANGED <<cur_file, avf, seekable, error, avf_duration,
                                 readers, unreachable, safe, cb, pkt, pc,
                                 try_counter, of, sk>>

\* the resolver loop has asked for every position
ResolveDone ==
    /\ pc = "resolve"
    /\ hd.i >= hd.count
    /\ pc' = "hdr_end"
    /\ UNCHANGED <<files, cur_file, avf, seekable, error, avf_duration, readers,
                   unreachable, safe, cb, hd, pkt, ret, try_counter, of, sk, h>>

\* an `ffconcat version 1.0` line
ParseVersion ==
    /\ pc = "parse"
    /\ safe' = IF safe < 0 THEN 1 ELSE safe
    /\ h' = [h EXCEPT !.line = "ffconcat", !.version = TRUE]
    /\ UNCHANGED <<files, cur_file, avf, seekable, error, avf_duration, readers,
                   unreachable, cb, hd, pkt, pc, ret, try_counter, of, sk>>

\* a `file` line
ParseFile(unsafe, mem) ==
    /\ pc = "parse"
    /\ nb_files < MaxFiles
    /\ h' = [h EXCEPT !.line = IF unsafe THEN "file_unsafe" ELSE "file"]
    /\ IF Failed(AddFileResult(safe, unsafe, mem))
         THEN ReadCloseWith(AddFileResult(safe, unsafe, mem))
         ELSE /\ files' = add_file(files, nb_files)
              /\ UNCHANGED <<cur_file, avf, seekable, error, avf_duration,
                             readers, unreachable, safe, cb, hd, pkt, pc, ret,
                             try_counter, of, sk>>

\* a `duration` line: sets the duration of the file added last
ParseDuration(dur) ==
    /\ pc = "parse"
    /\ h' = [h EXCEPT !.line = "duration"]
    /\ IF nb_files = 0
         THEN ReadCloseWith("INVALIDDATA")
         ELSE /\ files' = [files EXCEPT ![nb_files].duration = dur]
              /\ UNCHANGED <<cur_file, avf, seekable, error, avf_duration,
                             readers, unreachable, safe, cb, hd, pkt, pc, ret,
                             try_counter, of, sk>>

\* an unknown keyword, a `file` line without a name, a bad version or a
\* duration that does not parse
ParseInvalid ==
    /\ pc = "parse"
    /\ h' = [h EXCEPT !.line = "invalid"]
    /\ ReadCloseWith("INVALIDDATA")

\* faulty variant: the loop does not add the duration to the running time
RECURSIVE HeaderTimesNoCarry(_, _, _)
HeaderTimesNoCarry(fs, i, time) ==
    IF i >= Len(fs)
      THEN [files |-> fs, i |-> i, time |-> time]
      ELSE LET st  == IF fs[i + 1].start_time = AV_NOPTS_VALUE
                        THEN time ELSE fs[i + 1].start_time
               fs1 == [fs EXCEPT ![i + 1].start_time = st]
           IN  IF fs[i + 1].duration = AV_NOPTS_VALUE
                 THEN [files |-> fs1, i |-> i, time |-> st]
                 ELSE HeaderTimesNoCarry(fs1, i + 1, st)

\* the backfill loop of concat_read_header over files[i..]
RECURSIVE HeaderTimes(_, _, _)
HeaderTimes(fs, i, time) ==
    IF i >= Len(fs)
      THEN [files |-> fs, i |-> i, time |-> time]
      ELSE LET st  == IF fs[i + 1].start_time = AV_NOPTS_VALUE
                        THEN time ELSE fs[i + 1].start_time
               fs1 == [fs EXCEPT ![i + 1].start_time = st]
           IN  IF fs[i + 1].duration = AV_NOPTS_VALUE
                 THEN [files |-> fs1, i |-> i, time |-> st]
                 ELSE HeaderTimes(fs1, i + 1, st + fs[i + 1].duration)

\* concat_read_header after its loops, r being the value of ret: the two
\* failure tests, the backfill pass and the call of open_file(avf, 0)
AfterLoops(r) ==
    /\ h' = [h EXCEPT !.line = "none"]
    /\ IF Failed(r) THEN ReadCloseWith(r)
       ELSE IF nb_files = 0 THEN ReadCloseWith("INVALIDDATA")
       ELSE LET t == HeaderTimes(files, 0, 0) IN
            /\ files' = t.files
            /\ seekable' = (t.i = nb_files)
            /\ avf_duration' = IF t.i = nb_files THEN t.time ELSE avf_duration
            /\ of' = OpenFrame(0, "hdr_opened")
            /\ pc' = "of_open"
            /\ hd' = NoHeader
            /\ UNCHANGED <<cur_file, avf, error, readers, unreachable, safe, cb,
                           pkt, ret, try_counter, sk>>

\* ff_get_line returns <= 0: the end of the script (r = OK) or a read error
ParseEnd(r) ==
    /\ pc = "parse"
    /\ AfterLoops(r)

\* the script loop was not entered (fsc_cat.count > 0): ret is what the last
\* add_file returned, or uninitialised when add_file was never called
HeaderEnd(r) ==
    /\ pc = "hdr_end"
    /\ hd.ret_set => r = OK
    /\ AfterLoops(r)

\* after open_file(avf, 0): the streams of the first reader are copied;
\* avformat_new_stream or avcodec_copy_context may fail
HeaderOpened(r) ==
    /\ pc = "hdr_opened"
    /\ IF Failed(ret) THEN ReadCloseWith(ret) /\ UNCHANGED h
       ELSE IF Failed(r) THEN ReadCloseWith(r) /\ UNCHANGED h
       ELSE /\ pc' = "idle"
            /\ ret' = OK
            /\ of' = NoFrame
            /\ UNCHANGED <<files, cur_file, avf, seekable, error, avf_duration,
                           readers, unreachable, safe, cb, hd, pkt, try_counter,
                           sk, h>>

\* ---------------------------------------------------------- open_file
\* the locator open_file hands to avformat_open_input: the descriptor's,
\* unless a control_message_cb is set and IJKAVF_CM_RESOLVE_SEGMENT gave one
OpenUrl(fs, fileno, cb_, resolved) ==
    IF cb_ /\ resolved THEN ResolvedUrl(fileno) ELSE fs[fileno + 1].url

\* avformat_alloc_context and avformat_open_input: on success the new
\* reader exists beside cat->avf; resolved tells whether
\* IJKAVF_CM_RESOLVE_SEGMENT, asked for position fileno, gave a locator
OpenInput(r, resolved) ==
    /\ pc = "of_open"
    /\ r = OK => of.fileno \notin unreachable
    /\ IF Failed(r)
         THEN /\ ret' = r
              /\ pc' = of.ret_pc
              /\ UNCHANGED <<readers, of>>
         ELSE /\ readers' = (NewReader :> [fileno |-> of.fileno, pos |-> 0,
                                           start_time |-> ReaderStartTime(of.fileno),
                                           duration |-> ReaderDuration(of.fileno)])
                             @@ readers
              /\ of' = [of EXCEPT !.new = NewReader,
                                  !.url = OpenUrl(files, of.fileno, cb, resolved),
                                  !.position = IF cb THEN of.fileno ELSE @]
              /\ pc' = "of_info"
              /\ UNCHANGED ret
    /\ h' = [h EXCEPT !.nopen = @ + (IF r = "ENOMEM" THEN 0 ELSE 1)]
    /\ UNCHANGED <<files, cur_file, avf, seekable, error, avf_duration,
                   unreachable, safe, cb, hd, pkt, try_counter, sk>>

\* faulty variant: the start time is taken over from the previous descriptor
OpenStartTimeNoDuration(fs, fileno) ==
    IF fs[fileno + 1].start_time # AV_NOPTS_VALUE THEN fs[fileno + 1].start_time
    ELSE IF fileno = 0 THEN 0
    ELSE fs[fileno].start_time

\* the start time open_file gives a descriptor whose start time is unknown
OpenStartTime(fs, fileno) ==
    IF fs[fileno + 1].start_time # AV_NOPTS_VALUE THEN fs[fileno + 1].start_time
    ELSE IF fileno = 0 THEN 0
    ELSE fs[fileno].start_time + fs[fileno].duration

\* avformat_find_stream_info, then either the failure return (the new
\* reader is closed) or the swap: close cat->avf, install the new reader
OpenFinish(r) ==
    /\ pc = "of_info"
    /\ IF Failed(r)
         THEN /\ readers' = CloseReader(readers, of.new)
              /\ ret' = r
              /\ UNCHANGED <<files, cur_file, avf>>
         ELSE LET kept == IF avf # 0 THEN CloseReader(readers, avf) ELSE readers
                  n    == Renamed(kept, of.new)
              IN  /\ readers' = n.readers
                  /\ avf' = n.name
              /\ cur_file' = of.fileno
              /\ files' = [files EXCEPT ![of.fileno + 1].start_time =
                                            OpenStartTime(files, of.fileno)]
              /\ ret' = OK
    /\ pc' = of.ret_pc
    /\ of' = [of EXCEPT !.url = NoUrl]
    /\ UNCHANGED <<seekable, error, avf_duration, unreachable, safe, cb, hd,
                   pkt, try_counter, sk, h>>

\* ------------------------------------------------- concat_read_packet
\* faulty variant: the replay reports end-of-sequence whatever was stored
StickyReplayEof(e) == "EOF"

\* what concat_read_packet returns when cat->error is set
StickyReplay(e) == e

\* entry: the sticky error is replayed, or the read loop starts
ReadPacket ==
    /\ pc = "idle"
    /\ h' = CallHist("read")
    /\ try_counter' = 0
    /\ IF error # OK
         THEN /\ ret' = StickyReplay(error)
              /\ pc' = "idle"
         ELSE /\ pc' = "rp_read"
              /\ UNCHANGED ret
    /\ UNCHANGED <<files, cur_file, avf, seekable, error, avf_duration, readers,
                   unreachable, safe, cb, hd, pkt, of, sk>>

\* faulty variant: the reader's start time and the segment's are exchanged
DeltaSwapped(fs, fileno, reader) ==
    av_rescale_q(reader.start_time - fs[fileno + 1].start_time,
                 AV_TIME_BASE_Q, StreamTimeBase)

\* delta of concat_read_packet, in the time base of the packet's stream
Delta(fs, fileno, reader) ==
    av_rescale_q(fs[fileno + 1].start_time - reader.start_time,
                 AV_TIME_BASE_Q, StreamTimeBase)

\* faulty variant: delta is added to an unknown timestamp too
AddDeltaAlways(t, delta) == t + delta

\* pkt->pts += delta, pkt->dts += delta: a timestamp that is known
AddDelta(t, delta) == IF t # AV_NOPTS_VALUE THEN t + delta ELSE t

\* the packet concat_read_packet returns for the packet p its reader gave
Adjusted(p, fileno, delta) ==
    [fileno |-> fileno, raw_pts |-> p.pts, raw_dts |-> p.dts,
     pts |-> AddDelta(p.pts, delta), dts |-> AddDelta(p.dts, delta)]

\* faulty variant: every error of the reader is taken for the end of the segment
EndOfSegmentAnyError(r) == r # OK

\* the test of the read loop that sends it on to open_next_file
EndOfSegment(r) == r = "EOF"

\* av_read_frame(cat->avf, pkt): a packet, AVERROR_EOF at the end of the
\* segment, or another error of the reader; a packet ends the loop and is
\* returned with its timestamps moved by delta
ReadFrame(r) ==
    /\ pc = "rp_read"
    /\ r \in {OK, "EOF", "EIO"}
    /\ r = OK    => readers[avf].pos < NbPackets
    /\ r = "EOF" => readers[avf].pos = NbPackets
    /\ ret' = r
    /\ readers' = IF r = OK THEN [readers EXCEPT ![avf].pos = @ + 1] ELSE readers
    /\ pkt' = IF r = OK
               THEN Adjusted(ReaderPacket(cur_file, readers[avf].pos), cur_file,
                             Delta(files, cur_file, readers[avf]))
               ELSE pkt
    /\ pc' = IF EndOfSegment(r) THEN "rp_next" ELSE "idle"
    /\ h' = [h EXCEPT !.frame = r]
    /\ UNCHANGED <<files, cur_file, avf, seekable, error, avf_duration,
                   unreachable, safe, cb, hd, try_counter, of, sk>>

\* faulty variant: a retry goes on to the index after the one that failed
NextFilenoSkipping == cur_file + 1 + try_counter

\* the index open_next_file opens
NextFileno == cur_file + 1

\* faulty variant: the duration of the reader replaces the descriptor's
BackfilledDurationAlways(duration, reader_duration) == reader_duration

\* the duration open_next_file leaves in the descriptor of the segment it
\* leaves: the reader's when the descriptor has none
BackfilledDuration(duration, reader_duration) ==
    IF duration = AV_NOPTS_VALUE THEN reader_duration ELSE duration

\* faulty variant: the last segment is never opened
AfterLastEarly(fileno, nb) == fileno + 1 >= nb

\* the test of open_next_file for the end of the table
AfterLast(fileno, nb) == fileno >= nb

\* open_next_file: backfill the duration of the segment being left, then
\* AVERROR_EOF after the last segment or open_file(avf, fileno)
OpenNextFile ==
    /\ pc = "rp_next"
    /\ files' = [files EXCEPT ![cur_file + 1].duration =
                     BackfilledDuration(@, readers[avf].duration)]
    /\ IF AfterLast(NextFileno, nb_files)
         THEN /\ ret' = "EOF"
              /\ pc' = "rp_opened"
              /\ UNCHANGED of
         ELSE /\ of' = OpenFrame(NextFileno, "rp_opened")
              /\ pc' = "of_open"
              /\ UNCHANGED ret
    /\ UNCHANGED <<cur_file, avf, seekable, error, avf_duration, readers,
                   unreachable, safe, cb, hd, pkt, try_counter, sk, h>>

\* faulty variant: one more retry than CONCAT_MAX_OPEN_TRY
RetryExceededLate(n) == n > CONCAT_MAX_OPEN_TRY + 1

\* the test that ends the retries of concat_read_packet
RetryExceeded(n) == n > CONCAT_MAX_OPEN_TRY

\* back in the loop of concat_read_packet after open_next_file returned
NextFileReturned ==
    /\ pc = "rp_opened"
    /\ IF Failed(ret)
         THEN /\ try_counter' = try_counter + 1
              /\ h' = [h EXCEPT !.nfail = @ + 1]
              /\ IF RetryExceeded(try_counter + 1)
                   THEN /\ error' = ret
                        /\ ret' = "EOF"
                        /\ pc' = "idle"
                   ELSE /\ pc' = "rp_read"
                        /\ UNCHANGED <<error, ret>>
         ELSE /\ pc' = "rp_read"
              /\ UNCHANGED <<error, ret, try_counter, h>>
    /\ of' = NoFrame
    /\ UNCHANGED <<files, cur_file, avf, seekable, avf_duration, readers,
                   unreachable, safe, cb, hd, pkt, sk>>


\* ---------------------------------------------------------- concat_seek
\* faulty variant: the comparison of the locate loop is <= instead of <
RECURSIVE LocateBelow(_, _, _, _)
LocateBelow(fs, ts, left, right) ==
    IF right - left > 1
      THEN LET mid == (left + right) \div 2
           IN  IF ts <= fs[mid + 1].start_time
                 THEN LocateBelow(fs, ts, left, mid)
                 ELSE LocateBelow(fs, ts, mid, right)
      ELSE left

\* faulty variant: the loop stops while two candidates are left
RECURSIVE LocateEarlyStop(_, _, _, _)
LocateEarlyStop(fs, ts, left, right) ==
    IF right - left > 2
      THEN LET mid == (left + right) \div 2
           IN  IF ts < fs[mid + 1].start_time
                 THEN LocateEarlyStop(fs, ts, left, mid)
                 ELSE LocateEarlyStop(fs, ts, mid, right)
      ELSE left

\* the locate loop of real_seek
RECURSIVE Locate(_, _, _, _)
Locate(fs, ts, left, right) ==
    IF right - left > 1
      THEN LET mid == (left + right) \div 2
           IN  IF ts < fs[mid + 1].start_time
                 THEN Locate(fs, ts, left, mid)
                 ELSE Locate(fs, ts, mid, right)
      ELSE left

\* the window real_seek works with: rescaled to AV_TIME_BASE_Q for a stream
SeekWindow(stream, w) ==
    IF stream >= 0 THEN rescale_interval(StreamTimeBase, AV_TIME_BASE_Q, w) ELSE w

\* faulty variant: the sticky error survives the entry of concat_seek
ErrorAtSeekKept(e) == e

\* cat->error after the first statement of concat_seek
ErrorAtSeek(e) == OK

\* faulty variant: the seekable test is missing
SeekRejectionFlagsOnly(seekable_, flags) ==
    IF flags \cap {"BYTE", "FRAME"} # {} THEN "ENOSYS" ELSE OK

\* the early returns of concat_seek: OK when the seek goes on
SeekRejection(seekable_, flags) ==
    IF ~seekable_ THEN "ESPIPE"
    ELSE IF flags \cap {"BYTE", "FRAME"} # {} THEN "ENOSYS"
    ELSE OK

\* entry of concat_seek, and real_seek up to its call of open_file
Seek(stream, min_ts, ts, max_ts, flags) ==
    /\ pc = "idle"
    /\ h' = [CallHist("seek") EXCEPT
                !.byte_or_frame = (flags \cap {"BYTE", "FRAME"} # {})]
    /\ error' = ErrorAtSeek(error)
    /\ IF Failed(SeekRejection(seekable, flags))
         THEN /\ ret' = SeekRejection(seekable, flags)
              /\ UNCHANGED <<pc, avf, of, sk>>
       ELSE LET w == SeekWindow(stream, [ts |-> ts, min_ts |-> min_ts,
                                         max_ts |-> max_ts])
                frame == [cur_file_saved |-> cur_file, cur_avf_saved |-> avf,
                          stream |-> stream, min_ts |-> w.min_ts, ts |-> w.ts,
                          max_ts |-> w.max_ts,
                          left |-> Locate(files, w.ts, 0, nb_files),
                          local |-> NoWindow]
            IN
            /\ avf' = 0
            /\ IF stream >= NbStreams
                 THEN /\ ret' = "EINVAL"
                      /\ sk' = [frame EXCEPT !.min_ts = min_ts, !.ts = ts,
                                             !.max_ts = max_ts, !.left = 0 - 1]
                      /\ pc' = "sk_end"
                      /\ UNCHANGED of
                 ELSE /\ sk' = frame
                      /\ of' = OpenFrame(frame.left, "sk_opened")
                      /\ pc' = "of_open"
                      /\ UNCHANGED ret
    /\ UNCHANGED <<files, cur_file, seekable, avf_duration, readers,
                   unreachable, safe, cb, hd, pkt, try_counter>>

\* faulty variant: the offset of the segment is added, not subtracted
LocalWindowAdded(stream, w, t0) ==
    LET v == [ts     |-> w.ts + t0,
              min_ts |-> IF w.min_ts = INT64_MIN THEN INT64_MIN ELSE w.min_ts + t0,
              max_ts |-> IF w.max_ts = INT64_MAX THEN INT64_MAX ELSE w.max_ts + t0]
    IN  IF stream >= 0 THEN rescale_interval(AV_TIME_BASE_Q, StreamTimeBase, v)
        ELSE v

\* the window try_seek hands to avformat_seek_file of the active reader
LocalWindow(stream, w, t0) ==
    LET v == [ts     |-> w.ts - t0,
              min_ts |-> IF w.min_ts = INT64_MIN THEN INT64_MIN ELSE w.min_ts - t0,
              max_ts |-> IF w.max_ts = INT64_MAX THEN INT64_MAX ELSE w.max_ts - t0]
    IN  IF stream >= 0 THEN rescale_interval(AV_TIME_BASE_Q, StreamTimeBase, v)
        ELSE v

\* whether real_seek goes on to the next segment after a failed try_seek
Fallback(fs, left, max_ts) ==
    /\ left < Len(fs) - 1
    /\ fs[left + 2].start_time < max_ts

\* try_seek on the reader open_file just installed; r is what
\* avformat_seek_file returns
TrySeek(r) ==
    /\ pc = "sk_try"
    /\ LET t0 == File(cur_file).start_time - readers[avf].start_time
           lw == LocalWindow(sk.stream, sk, t0)
       IN
       /\ sk' = [sk EXCEPT !.local = lw]
       /\ h' = [h EXCEPT !.rejected = IF Failed(r) THEN @ \cup {cur_file} ELSE @]
       /\ readers' = IF r = OK THEN [readers EXCEPT ![avf].pos = 0] ELSE readers
    /\ ret' = r
    /\ IF Failed(r) /\ cur_file = sk.left /\ Fallback(files, sk.left, sk.max_ts)
         THEN /\ of' = OpenFrame(sk.left + 1, "sk_opened")
              /\ pc' = "of_open"
         ELSE /\ pc' = "sk_end"
              /\ UNCHANGED of
    /\ UNCHANGED <<files, cur_file, avf, seekable, error, avf_duration,
                   unreachable, safe, cb, hd, pkt, try_counter>>

\* real_seek after an open_file returned
SeekOpened ==
    /\ pc = "sk_opened"
    /\ pc' = IF Failed(ret) THEN "sk_end" ELSE "sk_try"
    /\ of' = NoFrame
    /\ UNCHANGED <<files, cur_file, avf, seekable, error, avf_duration, readers,
                   unreachable, safe, cb, hd, pkt, ret, try_counter, sk, h>>

\* faulty variant: the rollback forgets the reader real_seek left in cat->avf
RolledBackLeak(rs, a) == rs

\* the readers left open by the rollback of concat_seek: the reader a
\* failed real_seek left in cat->avf is closed
RolledBack(rs, a) == IF a # 0 THEN CloseReader(rs, a) ELSE rs

\* faulty variant: the rollback keeps the segment real_seek made current
RestoredFileKept(saved, current) == current

\* the segment the rollback of concat_seek makes current again
RestoredFile(saved, current) == saved

\* concat_seek after real_seek returned: roll back or commit
SeekEnd ==
    /\ pc = "sk_end"
    /\ IF Failed(ret)
         THEN /\ readers' = RolledBack(readers, avf)
              /\ avf' = sk.cur_avf_saved
              /\ cur_file' = RestoredFile(sk.cur_file_saved, cur_file)
         ELSE LET n == Renamed(CloseReader(readers, sk.cur_avf_saved), avf)
              IN  /\ readers' = n.readers
                  /\ avf' = n.name
              /\ UNCHANGED cur_file
    /\ pkt' = IF Failed(ret) THEN pkt ELSE NoPkt
    /\ pc' = "idle"
    /\ sk' = NoSeek
    /\ UNCHANGED <<files, seekable, error, avf_duration, unreachable, safe, cb,
                   hd, ret, try_counter, of, h>>

\* the seek requests a consumer makes: a stream or none (-1), a target and
\* a window around it, both in the time base of the stream
SeekFlags == {{}, {"BACKWARD"}, {"BYTE"}, {"FRAME"}}
SeekTargets(stream) == IF stream >= 0 THEN 0..(MaxTs \div 2) ELSE 0..MaxTs
SeekWindows(ts) == {<<INT64_MIN, INT64_MAX>>, <<ts, ts>>, <<ts, ts + 1>>}

\* ---------------------------------------------------- concat_read_close
ReadClose ==
    /\ pc = "idle"
    /\ h' = CallHist("close")
    /\ readers' = IF avf # 0 THEN CloseReader(readers, avf) ELSE readers
    /\ avf' = 0
    /\ files' = <<>>
    /\ cur_file' = 0 - 1
    /\ ret' = OK
    /\ pc' = "closed"
    /\ UNCHANGED <<seekable, error, avf_duration, unreachable, safe, cb, hd,
                   pkt, try_counter, of, sk>>

\* the steps of open_file, concat_read_packet, concat_seek, concat_read_close
Playback ==
    \/ \E r \in {OK} \cup OpenErrors, resolved \in BOOLEAN : OpenInput(r, resolved)
    \/ \E r \in {OK, "EIO"} : OpenFinish(r)
    \/ ReadPacket
    \/ \E r \in {OK, "EOF", "EIO"} : ReadFrame(r)
    \/ OpenNextFile
    \/ NextFileReturned
    \/ \E stream \in (0 - 1)..NbStreams, flags \in SeekFlags :
         \E ts \in SeekTargets(stream) : \E w \in SeekWindows(ts) :
            Seek(stream, w[1], ts, w[2], flags)
    \/ SeekOpened
    \/ \E r \in {OK, "EIO"} : TrySeek(r)
    \/ SeekEnd
    \/ ReadClose

\* playback of a script of `file` and `duration` lines with names on the
\* whitelist, the resolver reporting no list of its own
Next ==
    \/ HeaderStart(OK, 0)
    \/ ParseFile(FALSE, OK)
    \/ \E dur \in Durations : ParseDuration(dur)
    \/ ParseInvalid
    \/ \E r \in {OK, "EIO"} : ParseEnd(r)
    \/ \E r \in {OK, "ENOMEM"} : HeaderOpened(r)
    \/ Playback

Spec == Init /\ [][Next]_vars

\* concat_read_header alone, up to its return: every directive, names on
\* and off the whitelist, the resolver's list
NextHeader ==
    \/ \E cb_ret \in {OK, "EIO"}, count \in Counts : HeaderStart(cb_ret, count)
    \/ \E cb_ret \in {OK, "EIO"}, has_url \in BOOLEAN, unsafe \in BOOLEAN,
          dur \in Durations, mem \in {OK, "ENOMEM"} :
            ResolveSegment(cb_ret, has_url, unsafe, dur, mem)
    \/ ResolveDone
    \/ ParseVersion
    \/ \E unsafe \in BOOLEAN, mem \in {OK, "ENOMEM"} : ParseFile(unsafe, mem)
    \/ \E dur \in Durations : ParseDuration(dur)
    \/ ParseInvalid
    \/ \E r \in {OK, "EIO"} : ParseEnd(r)
    \/ \E r \in {OK, "EIO"} : HeaderEnd(r)
    \/ \E r \in {OK} \cup OpenErrors, resolved \in BOOLEAN : OpenInput(r, resolved)
    \/ \E r \in {OK, "EIO"} : OpenFinish(r)
    \/ \E r \in {OK, "ENOMEM"} : HeaderOpened(r)

SpecHeader == InitHeader /\ [][NextHeader]_vars

\* ------------------------------------------------------------ properties
Open == DOMAIN readers
InSeek ==
    \/ pc \in {"sk_opened", "sk_try", "sk_end"}
    \/ pc \in {"of_open", "of_info"} /\ of.ret_pc = "sk_opened"
InRead ==
    \/ pc \in {"rp_read", "rp_next", "rp_opened"}
    \/ pc \in {"of_open", "of_info"} /\ of.ret_pc = "rp_opened"

\* the consumer holds control: one reader is open, the one of the active segment
OneReaderWhenIdle ==
    pc = "idle" => /\ Open = {avf}
                   /\ readers[avf].fileno = cur_file

\* every reader open inside a seek is the saved one, the active one or the
\* one open_file is opening, and the saved one stays open
SeekReadersOwned ==
    InSeek => /\ sk.cur_avf_saved \in Open
              /\ Open \subseteq {sk.cur_avf_saved, avf, of.new}

\* C1 as stated: between calls exactly one reader is open, the one of the
\* active segment; inside a seek at most two readers are open and each is
\* the saved or the newly opened one.
C1_AtMostTwoInSeek ==
    /\ OneReaderWhenIdle
    /\ SeekReadersOwned
    /\ InSeek => Cardinality(Open) <= 2

\* C1 amended: between calls exactly one reader is open, the one of the
\* active segment; inside a seek at most three readers are open, the third
\* only while open_file has opened the fallback segment and not yet closed
\* the first candidate; every open reader is the saved one, the active one
\* or the one being opened.
C1_ReadersOpen ==
    /\ OneReaderWhenIdle
    /\ SeekReadersOwned
    /\ InSeek => Cardinality(Open) <= 3
    /\ (InSeek /\ Cardinality(Open) = 3) =>
           (pc = "of_info" /\ of.fileno = sk.left + 1)
    /\ InRead => Cardinality(Open) <= 2

\* a failed seek that opened the located segment and the fallback segment
\* has returned
C1_Witness ==
    /\ pc = "idle" /\ h.op = "seek" /\ Failed(ret)
    /\ h.nopen = 2 /\ h.rejected # {}

\* the step is the entry of a concat_seek call / of a concat_read_packet call
SeekEntry == pc = "idle" /\ h'.op = "seek"
ReadEntry == pc = "idle" /\ h'.op = "read"

\* C2: a seek that returns failure leaves the active segment and the active
\* reader as they were before the call: the reader open before is open, at
\* the position it had, and it is the only one open.
C2_FailedSeekRollsBack ==
    [][ /\ (SeekEntry /\ pc' = "idle") =>
              /\ Failed(ret')
              /\ readers' = readers /\ avf' = avf /\ cur_file' = cur_file
        /\ (SeekEntry /\ pc' # "idle") =>
              /\ sk'.cur_avf_saved = avf /\ sk'.cur_file_saved = cur_file
              /\ readers' = readers
        /\ (InSeek /\ ~(pc = "sk_end" /\ ret = OK)) =>
              /\ sk.cur_avf_saved \in DOMAIN readers'
              /\ readers'[sk.cur_avf_saved] = readers[sk.cur_avf_saved]
              /\ pc # "sk_end" => (sk'.cur_avf_saved = sk.cur_avf_saved
                                   /\ sk'.cur_file_saved = sk.cur_file_saved)
        /\ (pc = "sk_end" /\ Failed(ret)) =>
              /\ pc' = "idle" /\ ret' = ret
              /\ avf' = sk.cur_avf_saved
              /\ cur_file' = sk.cur_file_saved
              /\ DOMAIN readers' = {sk.cur_avf_saved}
      ]_vars

\* a seek opened the located segment, its reader rejected the seek, and the
\* call has returned failure to a consumer whose reader is past its packets
C2_Witness ==
    /\ pc = "idle" /\ h.op = "seek" /\ Failed(ret)
    /\ h.nopen = 1 /\ h.rejected # {}
    /\ readers[avf].pos = NbPackets

\* C3: one concat_read_packet call makes at most CONCAT_MAX_OPEN_TRY retries:
\* with the fourth failed open_next_file it returns end-of-sequence and the
\* failure is stored as the sticky error; no call sees a fifth failure.
C3_RetryBound ==
    /\ h.nfail <= CONCAT_MAX_OPEN_TRY + 1
    /\ InRead => (h.nfail <= CONCAT_MAX_OPEN_TRY /\ h.nfail = try_counter
                  /\ error = OK)
    /\ (pc = "idle" /\ h.op = "read" /\ h.pre_error = OK) =>
          /\ (h.nfail = CONCAT_MAX_OPEN_TRY + 1) <=> (error # OK)
          /\ error # OK => ret = "EOF"

\* a read call has ended with the fourth failure of an open
C3_Witness ==
    /\ pc = "idle" /\ h.op = "read" /\ h.nfail = CONCAT_MAX_OPEN_TRY + 1
    /\ error = "EIO" /\ ret = "EOF" /\ h.nopen = CONCAT_MAX_OPEN_TRY + 1

\* C4 as stated: a read call that finds the sticky error set returns
\* end-of-sequence, whatever the cause stored.
C4_ReplayIsEndOfSequence ==
    (pc = "idle" /\ h.op = "read" /\ h.pre_error # OK) => ret = "EOF"

\* C4 amended: the call that exceeds the retry bound returns
\* end-of-sequence and stores the code of its last failed open_next_file; a
\* read call that finds the sticky error set returns the stored code
\* (end-of-sequence only when that is what was stored) in one step, reads
\* from no reader, opens and closes none, and leaves the error stored.
C4_ReplayStoredError ==
    [][ /\ (pc = "rp_opened" /\ pc' = "idle") =>
            (error' = ret /\ Failed(ret) /\ ret' = "EOF")
        /\ (ReadEntry /\ error # OK) =>
            /\ pc' = "idle"
            /\ ret' = error /\ error' = error
            /\ readers' = readers /\ avf' = avf
            /\ cur_file' = cur_file /\ files' = files
      ]_vars

\* a read call has replayed a stored open failure
C4_Witness ==
    /\ pc = "idle" /\ h.op = "read" /\ h.pre_error = "EIO"
    /\ ret = "EIO" /\ error = "EIO"

\* C5 as stated: after a seek that returns failure the sticky error the
\* call found is still set.
C5_FailedSeekKeepsError ==
    (pc = "idle" /\ h.op = "seek" /\ Failed(ret)) => error = h.pre_error

\* C5 amended: every concat_seek call clears the sticky error with its first
\* statement, whether it then succeeds, fails or is rejected; the read that
\* follows a seek starts the read loop instead of replaying an error.
C5_SeekClearsError ==
    (h.op = "seek" \/ InSeek) => error = OK

\* a seek on a non-seekable table was rejected while the sticky error was set
C5_Witness ==
    /\ pc = "idle" /\ h.op = "seek" /\ ret = "ESPIPE" /\ h.pre_error # OK

\* C6 as stated: a read call does not end in the Exhausted state over a
\* segment that cannot be opened when the segment after it can be opened.
C6_SkipsUnreachableSegment ==
    (/\ pc = "idle" /\ h.op = "read" /\ h.pre_error = OK
     /\ error \in OpenErrors /\ (cur_file + 1) \in unreachable) =>
        ~(cur_file + 2 < nb_files /\ (cur_file + 2) \notin unreachable)

\* C6 amended: every open of a read call, the retries included, is of the
\* segment after the active one; a failed open leaves the active segment
\* and its reader in place, so the retries are made against the same index
\* and the active index moves by one, on a successful open only.
C6_RetrySameSegment ==
    [][ /\ InRead => cur_file' \in {cur_file, cur_file + 1}
        /\ (InRead' /\ pc' \in {"of_open", "of_info"}) =>
              of'.fileno = cur_file' + 1
        /\ (InRead /\ pc \in {"of_open", "of_info"} /\ Failed(ret') /\ pc' = "rp_opened") =>
              (cur_file' = cur_file /\ avf' = avf)
        /\ (InRead /\ cur_file' # cur_file) =>
              (pc = "of_info" /\ ret' = OK /\ readers'[avf'].fileno = cur_file + 1)
      ]_vars

\* a read call delivered a packet of the next segment after a failed open
\* of that segment and a retry that succeeded
C6_Witness ==
    /\ pc = "idle" /\ h.op = "read" /\ ret = OK
    /\ h.nfail >= 1 /\ h.nopen = h.nfail + 1
    /\ readers[avf].fileno = cur_file /\ readers[avf].pos = 1

\* the table as concat_read_header leaves it, before the first open_file
HeaderBuilt == pc = "of_open" /\ of.ret_pc = "hdr_opened"
Indices == 0..(nb_files - 1)
AllDurationsKnown == \A i \in Indices : Known(File(i).duration)
StartTimesAdd(n) ==
    \A i \in 0..(n - 1) : /\ Known(File(i).start_time) /\ Known(File(i).duration)
                          /\ File(i + 1).start_time =
                                File(i).start_time + File(i).duration
NonDecreasing == \A i \in 0..(nb_files - 2) :
                    File(i).start_time <= File(i + 1).start_time

\* C7 as stated: a table built from explicit durations only is seekable,
\* start_time[0] = 0, start_time[i+1] = start_time[i] + duration[i], the
\* start times are non-decreasing and the total duration is
\* start_time[last] + duration[last].
C7_ExplicitDurations ==
    (HeaderBuilt /\ AllDurationsKnown) =>
        /\ seekable
        /\ File(0).start_time = 0
        /\ StartTimesAdd(nb_files - 1)
        /\ NonDecreasing
        /\ avf_duration = File(nb_files - 1).start_time + File(nb_files - 1).duration

\* C7 amended: as stated, but the start times are non-decreasing when no
\* duration is negative; a negative duration is accepted by the header
\* build and gives start_time[i+1] < start_time[i].  The table of a
\* seekable source keeps these values after the header build.
C7_ExplicitDurationsAdd ==
    /\ (HeaderBuilt /\ AllDurationsKnown) => seekable
    /\ (seekable /\ pc # "closed") =>
          /\ AllDurationsKnown
          /\ File(0).start_time = 0
          /\ StartTimesAdd(nb_files - 1)
          /\ (\A i \in Indices : File(i).duration >= 0) => NonDecreasing
          /\ avf_duration = File(nb_files - 1).start_time + File(nb_files - 1).duration

\* a table of MaxFiles segments with explicit positive durations is built
C7_Witness ==
    /\ HeaderBuilt /\ nb_files = MaxFiles
    /\ \A i \in Indices : File(i).duration > 0

\* C8: a script that leaves out a duration gives a non-seekable table; from
\* then on the active segment's start time is known, every segment before
\* it has a known start time and duration with
\* start_time[i+1] = start_time[i] + duration[i], and the duration of the
\* active segment is known once open_next_file has run on it.
C8_BackfillInOrder ==
    /\ (HeaderBuilt /\ ~AllDurationsKnown) => ~seekable
    /\ (cur_file >= 0 /\ pc # "closed") =>
          /\ Known(File(cur_file).start_time)
          /\ StartTimesAdd(cur_file)
    /\ (/\ pc # "closed"
        /\ \/ InRead /\ pc \in {"of_open", "of_info"}
           \/ pc = "rp_opened" /\ Failed(ret)
           \/ error # OK) =>
          Known(File(cur_file).duration)

\* a table without any explicit duration has been read to its end
C8_Witness ==
    /\ pc = "idle" /\ ~seekable /\ error = "EOF"
    /\ nb_files = MaxFiles /\ cur_file = nb_files - 1
    /\ \A i \in Indices : File(i).duration = ReaderDuration(i)

\* the errors the NotSupported kind stands for
NotSupported == {"ESPIPE", "ENOSYS"}

\* C9: a seek on a non-seekable table, or with a byte or frame flag, returns
\* a NotSupported error at once and changes no reader, not the active
\* segment and not the table; seekable only changes in the header build.
C9_RejectedSeek ==
    [][ /\ (SeekEntry /\ (~seekable \/ h'.byte_or_frame)) =>
              /\ ret' \in NotSupported
              /\ pc' = "idle"
              /\ readers' = readers /\ avf' = avf
              /\ cur_file' = cur_file /\ files' = files
        /\ seekable' # seekable => pc = "parse"
      ]_vars

\* a seek was rejected on a non-seekable table whose start times and
\* durations have all been backfilled
C9_Witness ==
    /\ pc = "idle" /\ h.op = "seek" /\ ret = "ESPIPE" /\ ~seekable
    /\ nb_files = MaxFiles
    /\ \A i \in Indices : Known(File(i).start_time) /\ Known(File(i).duration)

\* the indices whose start time is the target of the running seek
AtTarget == {k \in Indices : File(k).start_time = sk.ts}
SeekSucceeded == pc = "sk_end" /\ ret = OK

\* C10 as stated: a successful seek to start_time[k] leaves segment k
\* active, or segment k+1 when the reader of segment k rejected the seek.
C10_LandsOnTarget ==
    SeekSucceeded => \A k \in AtTarget :
        \/ cur_file = k
        \/ cur_file = k + 1 /\ k \in h.rejected

\* C10 amended: on a table with non-decreasing start times a successful
\* seek to a start time of the table leaves active the last segment k that
\* starts at the target, or segment k+1 when the reader of segment k
\* rejected the seek.
C10_LandsOnLastAtTarget ==
    (SeekSucceeded /\ NonDecreasing /\ AtTarget # {}) =>
        LET k == CHOOSE i \in AtTarget : \A j \in AtTarget : j <= i
        IN  \/ cur_file = k
            \/ cur_file = k + 1 /\ k \in h.rejected

\* a seek to the start time of a segment that has a predecessor succeeded
\* on the segment after it
C10_Witness ==
    /\ SeekSucceeded /\ NonDecreasing
    /\ sk.left >= 1 /\ File(sk.left).start_time = sk.ts
    /\ cur_file = sk.left + 1 /\ sk.left \in h.rejected

\* the step is the one in which concat_read_packet returns a packet
Delivers == pc = "rp_read" /\ pc' = "idle" /\ ret' = OK

\* microseconds of AV_TIME_BASE_Q in a tick of the streams' time base
TickUs == (AV_TIME_BASE * StreamTimeBase.num) \div StreamTimeBase.den

StrictlyIncreasingDurations ==
    \A i \in 0..(nb_files - 2) : File(i).duration < File(i + 1).duration

\* the packet lies inside the span its descriptor gives the segment: not
\* later than `duration` after the start time of its reader, and not before
\* that start time
Covered(p) ==
    TickUs * p.raw_pts - ReaderStartTime(p.fileno) <= File(p.fileno).duration
NotEarly(p) == TickUs * p.raw_pts >= ReaderStartTime(p.fileno)

MovedBy(t, raw, d) ==
    IF raw = AV_NOPTS_VALUE THEN t = AV_NOPTS_VALUE
    ELSE /\ t # AV_NOPTS_VALUE
         /\ TickUs * (t - raw) - d \in (0 - TickUs \div 2)..(TickUs \div 2)

\* C15: the packet a read call returned has its presentation and decode
\* timestamps each equal to what the reader delivered plus delta, delta
\* being start_time of the packet's segment minus the start time of that
\* segment's reader in the stream's time base; an unknown timestamp stays
\* unknown; the packet comes from the segment active at the return.
C15_TimestampsMovedByDelta ==
    (pkt.fileno >= 0 /\ pc # "closed") =>
        LET d == File(pkt.fileno).start_time - ReaderStartTime(pkt.fileno)
        IN  /\ MovedBy(pkt.pts, pkt.raw_pts, d)
            /\ MovedBy(pkt.dts, pkt.raw_dts, d)
            /\ (pc = "idle" /\ h.op = "read" /\ ret = OK) => pkt.fileno = cur_file

\* a read call opened the next segment and returned its first packet, which
\* has no decode timestamp, with a delta that is not zero
C15_Witness ==
    /\ pc = "idle" /\ h.op = "read" /\ ret = OK /\ h.nopen = 1
    /\ pkt.fileno = cur_file /\ readers[avf].pos = 1
    /\ pkt.raw_dts = AV_NOPTS_VALUE /\ pkt.dts = AV_NOPTS_VALUE
    /\ pkt.pts # pkt.raw_pts

\* the step reads a `file` line whose name is not on the whitelist
UnsafeFileLine == pc = "parse" /\ h'.line = "file_unsafe"

\* safety mode as the claim describes it: the option is enabled, or it is
\* auto and an ffconcat line was read before
SafetyEnabled == h.option = 1 \/ (h.option = 0 - 1 /\ h.version)

\* C12: a `file` line with a name off the whitelist fails with EPERM exactly
\* when the option is enabled, or auto with an ffconcat line before it;
\* otherwise the line adds the segment (or fails in an allocation, never
\* with EPERM); cat->safe changes only from auto to enabled, on an ffconcat
\* line, so a disabled option stays disabled.
C12_UnsafeFileLine ==
    [][ /\ (UnsafeFileLine /\ SafetyEnabled) =>
              (pc' = "closed" /\ ret' = "EPERM" /\ files' = <<>>)
        /\ (UnsafeFileLine /\ ~SafetyEnabled) =>
              \/ /\ pc' = "parse"
                 /\ files' = Append(files, [url |-> nb_files,
                                            start_time |-> AV_NOPTS_VALUE,
                                            duration |-> AV_NOPTS_VALUE])
              \/ pc' = "closed" /\ ret' = "ENOMEM"
        /\ safe' # safe =>
              (safe = 0 - 1 /\ safe' = 1 /\ h'.line = "ffconcat")
        /\ (pc = "parse" /\ h.option = 0) => (safe = 0 /\ safe' = 0)
      ]_vars

\* with the option at auto, an ffconcat line was read and a later `file`
\* line with a name off the whitelist failed with EPERM
C12_Witness ==
    /\ pc = "closed" /\ ret = "EPERM" /\ h.line = "file_unsafe"
    /\ h.option = 0 - 1 /\ h.version /\ safe = 1

\* the running seek has located its segment: sk.left for the target sk.ts
Located == InSeek /\ sk.left >= 0
NotAfter == {i \in Indices : File(i).start_time <= sk.ts}
Bracketed(L) ==
    /\ L \in Indices
    /\ (L = 0 \/ File(L).start_time <= sk.ts)
    /\ (L = nb_files - 1 \/ sk.ts < File(L + 1).start_time)

\* C13 as stated: on a seekable table the locate loop returns the greatest
\* index whose start time is not after the target, or 0 when the target is
\* before every start time.
C13_GreatestNotAfter ==
    Located =>
        /\ Bracketed(sk.left)
        /\ sk.left = IF NotAfter = {} THEN 0
                     ELSE CHOOSE i \in NotAfter : \A j \in NotAfter : j <= i

\* C13 amended: on every seekable table the locate loop ends with an index
\* L such that (L = 0 or start_time[L] <= ts) and (L = N-1 or
\* ts < start_time[L+1]); L is the greatest index with start_time[L] <= ts
\* (or 0) when the start times are non-decreasing, which a negative
\* duration prevents.
C13_LocateBrackets ==
    Located =>
        /\ seekable
        /\ Bracketed(sk.left)
        /\ NonDecreasing =>
              sk.left = IF NotAfter = {} THEN 0
                        ELSE CHOOSE i \in NotAfter : \A j \in NotAfter : j <= i

\* a seek on a table of MaxFiles segments with increasing start times has
\* located a segment that is neither the first nor the last
C13_Witness ==
    /\ Located /\ nb_files = MaxFiles
    /\ sk.left > 0 /\ sk.left < nb_files - 1
    /\ \A i \in 0..(nb_files - 2) : File(i).start_time < File(i + 1).start_time

\* the step is try_seek returning failure on the located segment
FirstTryFails == pc = "sk_try" /\ cur_file = sk.left /\ Failed(ret')

\* C14 as stated: when the in-segment seek on the located segment fails,
\* the next segment is opened and the seek retried once there if the
\* located segment is not the last and start_time of the next one is
\* <= the max bound of the window; otherwise no segment is opened and the
\* seek fails; a seek call opens at most two segments.
C14_FallbackWithinMax ==
    [][ /\ FirstTryFails =>
              IF /\ sk.left < nb_files - 1
                 /\ File(sk.left + 1).start_time <= sk.max_ts
                THEN pc' = "of_open" /\ of'.fileno = sk.left + 1
                ELSE pc' = "sk_end"
        /\ (pc = "sk_try" /\ cur_file # sk.left) => pc' = "sk_end"
        /\ InSeek => h'.nopen <= 2
      ]_vars

\* concat_read_header has built the table and no close has freed it
TableBuilt == pc \notin {"start", "resolve", "parse", "hdr_end", "closed"}

\* C16: once the header build has made the table, a step that does not
\* free it keeps its length, its order and its locators, also a step in
\* which open_file uses a locator of the resolver; a start time or a
\* duration that is known keeps its value, so the only writes are backfills
\* of unknown fields and the duration of a reader never replaces one the
\* script gave.
C16_TableOnlyBackfilled ==
    [][ (TableBuilt /\ pc' # "closed") =>
           /\ Len(files') = Len(files)
           /\ \A i \in 1..Len(files) :
                 /\ files'[i].url = files[i].url
                 /\ Known(files[i].start_time) =>
                        files'[i].start_time = files[i].start_time
                 /\ Known(files[i].duration) =>
                        files'[i].duration = files[i].duration
      ]_vars

\* a read call has left a segment whose script duration differs from the
\* duration of its reader, and open_file is opening the next segment with a
\* locator the resolver gave for it
C16_Witness ==
    /\ pc = "of_info" /\ InRead
    /\ of.url = ResolvedUrl(of.fileno)
    /\ Known(File(cur_file).duration)
    /\ File(cur_file).duration # ReaderDuration(cur_file)

\* the resolver loop has run: the resolver reported hd.count >= 1 segments
ResolverLoopDone == pc = "hdr_end" /\ h.line = "resolved"

\* C17 as stated: when the resolver reports N >= 1 segments no script line
\* is read, the table has N descriptors in resolver order, descriptor i has
\* the locator and the duration the resolver gave for position i, the
\* table is seekable, and open_file asks the resolver for the position of
\* the descriptor it opens.
C17_ResolverListVerbatim ==
    /\ h.line = "resolved" => pc \in {"resolve", "hdr_end", "closed"}
    /\ ResolverLoopDone =>
          /\ nb_files = hd.count
          /\ \A i \in Indices : File(i).url = i /\ Known(File(i).duration)
    /\ (pc = "of_open" /\ h.resolved # <<>>) => seekable
    /\ (pc = "of_info" /\ h.resolved # <<>>) =>
          of.position = File(of.fileno).url

\* av_read_frame of the active reader just returned an error that is not
\* AVERROR_EOF
ReaderErrorStep == pc = "rp_read" /\ h'.frame \notin {"none", OK, "EOF"}

\* C18: an error of the active reader other than end-of-segment is
\* returned as it is; no reader is opened or closed, the active segment
\* stays, no error is stored, and the next concat_read_packet reads from
\* the same reader again.
C18_ReaderErrorReturned ==
    [][ /\ ReaderErrorStep =>
              /\ pc' = "idle"
              /\ ret' = h'.frame
              /\ UNCHANGED <<readers, avf, cur_file, files, try_counter>>
              /\ h'.nopen = h.nopen
              /\ error' = OK
        /\ (pc = "idle" /\ h.op = "read" /\ h.frame \notin {"none", OK, "EOF"}
               /\ h'.op = "read" /\ h' # h) =>
              /\ pc' = "rp_read"
              /\ UNCHANGED <<readers, avf, cur_file, ret>>
      ]_vars

\* a concat_read_packet has returned the error of the reader of a later
\* segment, after a failed attempt to go on to that segment's successor
C18_Witness ==
    /\ pc = "idle"
    /\ h.op = "read"
    /\ h.frame = "EIO"
    /\ ret = "EIO"
    /\ error = OK
    /\ cur_file > 0
    /\ h.nfail > 0

\* try_seek has handed the window sk.local to the reader of the active segment
Translated == pc = "sk_end" /\ avf # 0

\* S - R of the active segment, in microseconds
SegmentOffset == File(cur_file).start_time - readers[avf].start_time

\* what concat_read_packet adds to a timestamp of the active segment, in
\* the unit of the seek request: ticks for a stream, microseconds without
PacketShift ==
    IF sk.stream >= 0 THEN Delta(files, cur_file, readers[avf])
    ELSE TickUs * Delta(files, cur_file, readers[avf])

\* a bound or target of the request, in the unit of the request
Requested(x) == IF sk.stream >= 0 THEN x \div TickUs ELSE x

IsInfinite(x) == x = INT64_MIN \/ x = INT64_MAX

InUs(x) == IF sk.stream >= 0 THEN TickUs * x ELSE x

\* x, in the unit of the request, is the microsecond value us brought to
\* that unit: exact without a stream, less than a tick off for a stream
Rescaled(x, us) ==
    IF sk.stream >= 0 THEN InUs(x) - us \in (1 - TickUs)..(TickUs - 1)
    ELSE x = us

Reading == h.op = "read" /\ h'.op = "read"

\* C20: while packets are read the active segment changes only to its
\* successor, only when open_file succeeds after the reader reported the end
\* of its segment; open_next_file opens the successor of every segment but
\* the last, where it returns AVERROR_EOF without opening anything, and a
\* call whose reader reported the end last returns AVERROR_EOF with the
\* error stored.
C20_SequentialReading ==
    [][ Reading =>
          /\ cur_file' # cur_file =>
                /\ cur_file' = cur_file + 1
                /\ pc = "of_info" /\ ret' = OK
                /\ h.frame = "EOF"
          /\ pc = "rp_next" =>
                IF cur_file = nb_files - 1
                  THEN /\ pc' = "rp_opened" /\ ret' = "EOF"
                       /\ UNCHANGED <<of, readers, avf, cur_file>>
                       /\ h'.nopen = h.nopen
                  ELSE /\ pc' = "of_open"
                       /\ of'.fileno = cur_file + 1
          /\ (pc # "idle" /\ pc' = "idle" /\ h'.frame = "EOF") =>
                /\ ret' = "EOF"
                /\ error' # OK
                /\ cur_file = nb_files - 1 => error' = "EOF"
      ]_vars

\* the segments were read one after the other and the call at the end of
\* the last one has returned AVERROR_EOF
C20_Witness ==
    /\ pc = "idle"
    /\ h.op = "read"
    /\ h.pre_error = OK
    /\ h.frame = "EOF"
    /\ h.nopen = 0
    /\ cur_file = nb_files - 1
    /\ cur_file > 0
    /\ ret = "EOF"
    /\ error = "EOF"

====
